---- MODULE Spec2Model ----
(***************************************************************************)
(* Model of the InputManager of src/src/input.rs: a binding table from     *)
(* keys to logical effects, a registry of tweened axes and a registry of   *)
(* button latches.                                                         *)
(*                                                                         *)
(* Numbers.  The f64 position of an axis is kept as an integer number of   *)
(* position units, One units making 1.0.  The f64 dt given to update is    *)
(* kept as an integer number of ticks, One ticks making one second, so     *)
(* that `acceleration * dt` is acceleration * dt position units.  All the  *)
(* arithmetic of update (a product, a difference from 1.0, a minimum, a    *)
(* sum) is then exact integer arithmetic.  direction, acceleration and     *)
(* gravity keep their source values (-1, 0, 1, 4, 3).                      *)
(***************************************************************************)
EXTENDS Integers, FiniteSets, TLC

\* Position units in 1.0, and ticks in one second.
One == 5
\* The largest dt, in ticks, update is called with.
MaxDt == 1

\* Keycode values the host dispatches; None is Option::None.
Keys == {"Up", "Down"}
None == "None"
\* The application's axis and button identifiers.
Axes == {"Vert", "Horz"}
Buttons == {"A"}

VARIABLES
    bindings,   \* HashMap<InputEvent, InputEffect>: function on the bound keys
    axes,       \* HashMap<Axes, AxisStatus>: function on the known axes
    buttons,    \* HashMap<Buttons, bool>: function on the known buttons
    held        \* the host's keys whose last dispatched event was a key-down

vars == <<bindings, axes, buttons, held>>

Abs(x) == IF x < 0 THEN -x ELSE x
Min(x, y) == IF x < y THEN x ELSE y
Max(x, y) == IF x < y THEN y ELSE x

\* InputEffect::Axis(axis, positive) and InputEffect::Button(button)
AxisEffect(axis, positive) == [kind |-> "Axis", axis |-> axis, positive |-> positive]
ButtonEffect(button) == [kind |-> "Button", button |-> button]

\* AxisStatus::default()
AxisStatusDefault == [position |-> 0, direction |-> 0, acceleration |-> 4, gravity |-> 3]

\* HashMap::insert: adds the entry or replaces the one of the same key.
Insert(map, k, v) == [x \in DOMAIN map \cup {k} |-> IF x = k THEN v ELSE map[x]]

\* HashMap::entry(k).or_insert_with(|| v): adds the entry only when k is absent.
OrInsert(map, k, v) == IF k \in DOMAIN map THEN map ELSE Insert(map, k, v)

Init ==
    /\ bindings = << >>
    /\ axes = << >>
    /\ buttons = << >>
    /\ held = {}

\* bind_key_to_axis with entry().or_insert for the binding: the first bind of a
\* key stays.
bind_key_to_axisFirstWins(keycode, axis, positive) ==
    /\ bindings' = OrInsert(bindings, keycode, AxisEffect(axis, positive))
    /\ axes' = Insert(axes, axis, AxisStatusDefault)
    /\ UNCHANGED <<buttons, held>>

bind_key_to_axis(keycode, axis, positive) ==
    /\ bindings' = Insert(bindings, keycode, AxisEffect(axis, positive))
    /\ axes' = Insert(axes, axis, AxisStatusDefault)
    /\ UNCHANGED <<buttons, held>>

bind_key_to_button(keycode, button) ==
    /\ bindings' = Insert(bindings, keycode, ButtonEffect(button))
    /\ buttons' = Insert(buttons, button, FALSE)
    /\ UNCHANGED <<axes, held>>

\* UpdateAxis with the acceleration step not capped at 1.0 - |position|.
UpdateAxisUncapped(axis_status, dt) ==
    IF axis_status.direction # 0
    THEN LET abs_dx == axis_status.acceleration * dt
             dx == IF axis_status.direction > 0 THEN abs_dx ELSE -abs_dx
         IN  [axis_status EXCEPT !.position = @ + dx]
    ELSE LET abs_dx == Min(axis_status.gravity * dt, Abs(axis_status.position))
             dx == IF axis_status.position > 0 THEN -abs_dx ELSE abs_dx
         IN  [axis_status EXCEPT !.position = @ + dx]

\* UpdateAxis with the gravity step not capped at |position|.
UpdateAxisGravityUncapped(axis_status, dt) ==
    IF axis_status.direction # 0
    THEN LET abs_dx == Min(axis_status.acceleration * dt, One - Abs(axis_status.position))
             dx == IF axis_status.direction > 0 THEN abs_dx ELSE -abs_dx
         IN  [axis_status EXCEPT !.position = @ + dx]
    ELSE LET abs_dx == axis_status.gravity * dt
             dx == IF axis_status.position > 0 THEN -abs_dx ELSE abs_dx
         IN  [axis_status EXCEPT !.position = @ + dx]

\* UpdateAxis with the acceleration step applied against the direction.
UpdateAxisSignFlipped(axis_status, dt) ==
    IF axis_status.direction # 0
    THEN LET abs_dx == Min(axis_status.acceleration * dt, One - Abs(axis_status.position))
             dx == IF axis_status.direction > 0 THEN -abs_dx ELSE abs_dx
         IN  [axis_status EXCEPT !.position = @ + dx]
    ELSE LET abs_dx == Min(axis_status.gravity * dt, Abs(axis_status.position))
             dx == IF axis_status.position > 0 THEN -abs_dx ELSE abs_dx
         IN  [axis_status EXCEPT !.position = @ + dx]

\* UpdateAxis with the gravity step applied to positive positions only.
UpdateAxisGravityPositiveOnly(axis_status, dt) ==
    IF axis_status.direction # 0
    THEN LET abs_dx == Min(axis_status.acceleration * dt, One - Abs(axis_status.position))
             dx == IF axis_status.direction > 0 THEN abs_dx ELSE -abs_dx
         IN  [axis_status EXCEPT !.position = @ + dx]
    ELSE LET abs_dx == Min(axis_status.gravity * dt, Abs(axis_status.position))
             dx == IF axis_status.position > 0 THEN -abs_dx ELSE 0
         IN  [axis_status EXCEPT !.position = @ + dx]

\* UpdateAxis that drops the direction of an axis arriving at its boundary.
UpdateAxisStopAtBoundary(axis_status, dt) ==
    IF axis_status.direction # 0
    THEN LET abs_dx == Min(axis_status.acceleration * dt, One - Abs(axis_status.position))
             dx == IF axis_status.direction > 0 THEN abs_dx ELSE -abs_dx
         IN  [axis_status EXCEPT !.position = @ + dx,
                                 !.direction = IF Abs(axis_status.position + dx) = One
                                               THEN 0 ELSE @]
    ELSE LET abs_dx == Min(axis_status.gravity * dt, Abs(axis_status.position))
             dx == IF axis_status.position > 0 THEN -abs_dx ELSE abs_dx
         IN  [axis_status EXCEPT !.position = @ + dx]

\* UpdateAxis with f64::max where the code has f64::min.
UpdateAxisMax(axis_status, dt) ==
    IF axis_status.direction # 0
    THEN LET abs_dx == Max(axis_status.acceleration * dt, One - Abs(axis_status.position))
             dx == IF axis_status.direction > 0 THEN abs_dx ELSE -abs_dx
         IN  [axis_status EXCEPT !.position = @ + dx]
    ELSE LET abs_dx == Max(axis_status.gravity * dt, Abs(axis_status.position))
             dx == IF axis_status.position > 0 THEN -abs_dx ELSE abs_dx
         IN  [axis_status EXCEPT !.position = @ + dx]

\* The body of the loop of update, for one axis.
UpdateAxis(axis_status, dt) ==
    IF axis_status.direction # 0
    THEN LET abs_dx == Min(axis_status.acceleration * dt, One - Abs(axis_status.position))
             dx == IF axis_status.direction > 0 THEN abs_dx ELSE -abs_dx
         IN  [axis_status EXCEPT !.position = @ + dx]
    ELSE LET abs_dx == Min(axis_status.gravity * dt, Abs(axis_status.position))
             dx == IF axis_status.position > 0 THEN -abs_dx ELSE abs_dx
         IN  [axis_status EXCEPT !.position = @ + dx]

update(dt) ==
    /\ axes' = [a \in DOMAIN axes |-> UpdateAxis(axes[a], dt)]
    /\ UNCHANGED <<bindings, buttons, held>>

\* EffectAxes where a key-up zeroes the direction only when the direction is
\* the one the released key had set.
EffectAxesKeepOpposite(effect, started) ==
    IF effect.kind = "Axis"
    THEN LET m == OrInsert(axes, effect.axis, AxisStatusDefault)
             direction_float == IF effect.positive THEN 1 ELSE -1
         IN  [m EXCEPT ![effect.axis].direction =
                 IF started THEN direction_float
                 ELSE IF @ = direction_float THEN 0 ELSE @]
    ELSE axes

\* EffectAxes with HashMap::insert for the entry: the axis restarts from its default.
EffectAxesReinsert(effect, started) ==
    IF effect.kind = "Axis"
    THEN LET m == Insert(axes, effect.axis, AxisStatusDefault)
             direction_float == IF effect.positive THEN 1 ELSE -1
         IN  [m EXCEPT ![effect.axis].direction = IF started THEN direction_float ELSE 0]
    ELSE axes

\* EffectButtons without the assignment that follows or_insert.
EffectButtonsOrInsertOnly(effect, started) ==
    IF effect.kind = "Button"
    THEN OrInsert(buttons, effect.button, started)
    ELSE buttons

\* EffectAxes where the direction is the sum of the signs of the keys pressed:
\* a key-down adds the sign of the key, a key-up takes it back.
EffectAxesAccumulate(effect, started) ==
    IF effect.kind = "Axis"
    THEN LET m == OrInsert(axes, effect.axis, AxisStatusDefault)
             direction_float == IF effect.positive THEN 1 ELSE -1
         IN  [m EXCEPT ![effect.axis].direction =
                 IF started THEN @ + direction_float ELSE @ - direction_float]
    ELSE axes

\* update_effect: the axes and buttons after the effect is applied.
EffectAxes(effect, started) ==
    IF effect.kind = "Axis"
    THEN LET m == OrInsert(axes, effect.axis, AxisStatusDefault)
             direction_float == IF effect.positive THEN 1 ELSE -1
         IN  [m EXCEPT ![effect.axis].direction = IF started THEN direction_float ELSE 0]
    ELSE axes

EffectButtons(effect, started) ==
    IF effect.kind = "Button"
    THEN LET m == OrInsert(buttons, effect.button, started)
         IN  [m EXCEPT ![effect.button] = started]
    ELSE buttons

update_effect(effect, started) ==
    /\ axes' = EffectAxes(effect, started)
    /\ buttons' = EffectButtons(effect, started)

update_keydown(keycode) ==
    /\ IF keycode # None /\ keycode \in DOMAIN bindings
       THEN update_effect(bindings[keycode], TRUE)
       ELSE UNCHANGED <<axes, buttons>>
    /\ held' = IF keycode # None THEN held \cup {keycode} ELSE held
    /\ UNCHANGED bindings

\* update_keyup where a key without a binding is taken as the release of
\* every key: each axis loses its direction.
update_keyupUnboundReleasesAll(keycode) ==
    /\ IF keycode # None /\ keycode \in DOMAIN bindings
       THEN update_effect(bindings[keycode], FALSE)
       ELSE /\ axes' = [a \in DOMAIN axes |-> [axes[a] EXCEPT !.direction = 0]]
            /\ UNCHANGED buttons
    /\ held' = held \ {keycode}
    /\ UNCHANGED bindings

update_keyup(keycode) ==
    /\ IF keycode # None /\ keycode \in DOMAIN bindings
       THEN update_effect(bindings[keycode], FALSE)
       ELSE UNCHANGED <<axes, buttons>>
    /\ held' = held \ {keycode}
    /\ UNCHANGED bindings

get_axis(axis) ==
    /\ axes' = OrInsert(axes, axis, AxisStatusDefault)
    /\ UNCHANGED <<bindings, buttons, held>>

get_axis_raw(axis) ==
    /\ axes' = OrInsert(axes, axis, AxisStatusDefault)
    /\ UNCHANGED <<bindings, buttons, held>>

\* The values get_axis and get_axis_raw return, read in the state they leave.
AxisValue(axis) == axes[axis].position
AxisRawValue(axis) == axes[axis].direction

\* get_button_up read off the registry alone: a button without an entry is
\* neither down nor up.
get_button_upKnownOnly(button) ==
    IF button \in DOMAIN buttons THEN ~buttons[button] ELSE FALSE

get_button(button) == IF button \in DOMAIN buttons THEN buttons[button] ELSE FALSE
get_button_down(button) == get_button(button)
get_button_up(button) == ~get_button(button)

\* reset_input_axes that zeroes the position and keeps the direction.
\* read_button with the entry API of the axis readers: an unknown button gets
\* an entry.
read_buttonMaterializes(button) ==
    /\ buttons' = OrInsert(buttons, button, FALSE)
    /\ UNCHANGED <<bindings, axes, held>>

\* A call of get_button, get_button_down or get_button_up: they take &self and
\* write no field; the operators above are the values they return.
read_button(button) ==
    /\ buttons' = buttons
    /\ UNCHANGED <<bindings, axes, held>>

reset_input_axesPositionOnly ==
    /\ axes' = [a \in DOMAIN axes |-> [axes[a] EXCEPT !.position = 0]]
    /\ UNCHANGED <<bindings, buttons, held>>

reset_input_axes ==
    /\ axes' = [a \in DOMAIN axes |-> [axes[a] EXCEPT !.position = 0, !.direction = 0]]
    /\ UNCHANGED <<bindings, buttons, held>>

Next ==
    \/ \E k \in Keys, a \in Axes, p \in BOOLEAN : bind_key_to_axis(k, a, p)
    \/ \E k \in Keys, b \in Buttons : bind_key_to_button(k, b)
    \/ \E dt \in 0..MaxDt : update(dt)
    \/ \E k \in Keys \cup {None} : update_keydown(k)
    \/ \E k \in Keys \cup {None} : update_keyup(k)
    \/ \E a \in Axes : get_axis(a)
    \/ \E a \in Axes : get_axis_raw(a)
    \/ \E b \in Buttons : read_button(b)
    \/ reset_input_axes

Spec == Init /\ [][Next]_vars

\* The effects a key can be bound to.
Effects ==
    {AxisEffect(a, p) : a \in Axes, p \in BOOLEAN} \cup {ButtonEffect(b) : b \in Buttons}

\* The manager as a builder chain that binds every key once leaves it (the
\* construction of tests::test_input_events): every bound axis and button is
\* in its registry with its default.
Constructed ==
    /\ bindings \in [Keys -> Effects]
    /\ axes = [a \in {bindings[k].axis : k \in {x \in Keys : bindings[x].kind = "Axis"}}
                  |-> AxisStatusDefault]
    /\ buttons = [b \in {bindings[k].button : k \in {x \in Keys : bindings[x].kind = "Button"}}
                     |-> FALSE]
    /\ held = {}

\* The host after construction: it dispatches key events, reads and resets
\* the axes, and calls update from its frame loop.
Run ==
    \/ \E dt \in 0..MaxDt : update(dt)
    \/ \E k \in Keys \cup {None} : update_keydown(k)
    \/ \E k \in Keys \cup {None} : update_keyup(k)
    \/ \E a \in Axes : get_axis(a)
    \/ \E a \in Axes : get_axis_raw(a)
    \/ \E b \in Buttons : read_button(b)
    \/ reset_input_axes

\* The frame loop keeps calling update with an elapsed time dt > 0.
Frame == \E dt \in 1..MaxDt : update(dt)

LiveSpec == Constructed /\ [][Run]_vars /\ WF_vars(Frame)

\* The time steps update is called with: dt >= 0, and dt > 0.
Dts == 0..MaxDt
PositiveDts == 1..MaxDt

\* +One for a positive direction, -One for a negative one: the boundary the
\* direction names.
Boundary(direction) == IF direction > 0 THEN One ELSE -One

(***************************************************************************)
(* C1: in every reachable state every axis of the registry has its         *)
(* position in [-1, 1].                                                    *)
(***************************************************************************)
C1_PositionInRange ==
    \A a \in DOMAIN axes : -One <= axes[a].position /\ axes[a].position <= One

\* An axis driven up to the boundary, where the cap of the step has acted.
C1_Witness ==
    \E a \in DOMAIN axes : axes[a].position = One /\ axes[a].direction = 1

(***************************************************************************)
(* C2: with a nonzero direction, an update with dt > 0 moves the position  *)
(* strictly toward the boundary the direction names, unless the position   *)
(* is that boundary already, in which case it stays.                       *)
(***************************************************************************)
C2_StrictlyTowardBoundary ==
    \A a \in DOMAIN axes, dt \in PositiveDts :
        LET before == axes[a].position
            after == UpdateAxis(axes[a], dt).position
            target == Boundary(axes[a].direction)
        IN  axes[a].direction # 0 =>
                IF before = target
                THEN after = before
                ELSE Abs(target - after) < Abs(target - before)

(***************************************************************************)
(* C3: an update with dt >= 0 never lowers the position of an axis whose   *)
(* direction is positive and never raises the position of one whose        *)
(* direction is negative, and it leaves the direction as it is.            *)
(***************************************************************************)
C3_MonotoneWhileDriven ==
    [][\A dt \in Dts : update(dt) =>
          \A a \in DOMAIN axes :
              /\ axes'[a].direction = axes[a].direction
              /\ axes[a].direction > 0 => axes'[a].position >= axes[a].position
              /\ axes[a].direction < 0 => axes'[a].position <= axes[a].position]_vars

\* An axis pushed upward while still below zero.
C3_Witness ==
    \E a \in DOMAIN axes :
        axes[a].direction > 0 /\ axes[a].position < 0 /\ axes[a].position > -One

(***************************************************************************)
(* C4: for an axis whose direction is 0, an update with dt >= 0 does not   *)
(* enlarge |position| and does not flip its sign.                          *)
(***************************************************************************)
C4_DecayNoOvershoot ==
    \A a \in DOMAIN axes, dt \in Dts :
        LET before == axes[a].position
            after == UpdateAxis(axes[a], dt).position
        IN  axes[a].direction = 0 =>
                /\ Abs(after) <= Abs(before)
                /\ before > 0 => after >= 0
                /\ before < 0 => after <= 0

\* A released axis closer to zero than one gravity step.
C4_Witness ==
    \E a \in DOMAIN axes :
        /\ axes[a].direction = 0
        /\ axes[a].position # 0
        /\ Abs(axes[a].position) < axes[a].gravity

(***************************************************************************)
(* C5: an axis at position 0 with direction +1 (the state update_keydown   *)
(* of a positive key leaves a resting axis in) is brought by the updates   *)
(* of the frame loop to position exactly 1.0, as long as no key event,     *)
(* reset or bind changes its direction; it never passes 1.0, and once at   *)
(* 1.0 every update leaves it there.  The same with direction -1 and -1.0. *)
(***************************************************************************)
C5_HeldKeyReachesBoundary ==
    /\ \A a \in Axes, d \in {-1, 1} :
          (a \in DOMAIN axes /\ axes[a].position = 0 /\ axes[a].direction = d)
              ~> (a \in DOMAIN axes /\ (axes[a].position = d * One \/ axes[a].direction # d))
    /\ [](\A a \in DOMAIN axes, dt \in Dts :
            LET after == UpdateAxis(axes[a], dt).position
            IN  /\ axes[a].direction = 1 => after <= One
                /\ axes[a].direction = -1 => after >= -One
                /\ (axes[a].direction # 0 /\ axes[a].position = axes[a].direction * One)
                       => after = axes[a].position)

\* An axis whose positive key is held and no negative key, arrived at 1.0.
C5_Witness ==
    \E a \in DOMAIN axes, k \in held :
        /\ k \in DOMAIN bindings /\ bindings[k] = AxisEffect(a, TRUE)
        /\ axes[a].direction = 1 /\ axes[a].position = One

(***************************************************************************)
(* C6: an axis whose direction is 0 is brought by the updates of the frame *)
(* loop to position exactly 0, as long as no key-down sets its direction;  *)
(* no update takes the position of such an axis to the other side of 0 or  *)
(* away from 0, so at 0 it stays.                                          *)
(***************************************************************************)
C6_ReleasedAxisReturnsToRest ==
    /\ \A a \in Axes :
          (a \in DOMAIN axes /\ axes[a].direction = 0)
              ~> (a \in DOMAIN axes /\ (axes[a].position = 0 \/ axes[a].direction # 0))
    /\ [](\A a \in DOMAIN axes, dt \in Dts :
            LET before == axes[a].position
                after == UpdateAxis(axes[a], dt).position
            IN  axes[a].direction = 0 =>
                    /\ before >= 0 => (0 <= after /\ after <= before)
                    /\ before <= 0 => (before <= after /\ after <= 0))

\* An axis back at rest with no key held, after having been driven: its key is
\* bound and the other axis is still away from rest.
C6_Witness ==
    \E a, b \in DOMAIN axes :
        /\ a # b /\ held = {}
        /\ axes[a].direction = 0 /\ axes[a].position = 0
        /\ axes[b].direction = 0 /\ axes[b].position # 0 /\ Abs(axes[b].position) < One

(***************************************************************************)
(* C7: update(0) leaves the position, direction, acceleration and gravity  *)
(* of every axis unchanged.                                                *)
(***************************************************************************)
C7_UpdateZeroIdentity ==
    \A a \in DOMAIN axes : UpdateAxis(axes[a], 0) = axes[a]

\* A driven axis and a decaying axis, both strictly between rest and boundary.
C7_Witness ==
    \E a, b \in DOMAIN axes :
        /\ axes[a].direction # 0 /\ axes[a].position # 0 /\ Abs(axes[a].position) < One
        /\ axes[b].direction = 0 /\ axes[b].position # 0

\* The keys bound to axis a, and those bound to it with the given sign.
KeysOfAxis(a) ==
    {k \in DOMAIN bindings : bindings[k].kind = "Axis" /\ bindings[k].axis = a}
KeysOfAxisSigned(a, positive) == {k \in KeysOfAxis(a) : bindings[k].positive = positive}
KeysOfButton(b) ==
    {k \in DOMAIN bindings : bindings[k].kind = "Button" /\ bindings[k].button = b}

(***************************************************************************)
(* C8: update_keyup of a key bound to an axis leaves that axis with        *)
(* direction 0, whatever the sign of the key and whatever other keys of    *)
(* the axis are held; and a direction that is 0 becomes nonzero only by    *)
(* update_keydown of a key bound to that axis.                             *)
(***************************************************************************)
C8_KeyUpZeroesDirection ==
    [][/\ \A a \in DOMAIN axes : \A k \in KeysOfAxis(a) :
              update_keyup(k) => axes'[a].direction = 0
       /\ \A a \in DOMAIN axes :
              (a \in DOMAIN axes' /\ axes[a].direction = 0 /\ axes'[a].direction # 0)
                  => \E k \in KeysOfAxis(a) : update_keydown(k)]_vars

\* The positive key of an axis was released while its negative key, pressed
\* before it, is still held: the axis is below zero with direction 0.
C8_Witness ==
    \E a \in DOMAIN axes :
        /\ \E k \in KeysOfAxisSigned(a, TRUE) : k \notin held
        /\ \E k \in KeysOfAxisSigned(a, FALSE) : k \in held
        /\ axes[a].direction = 0
        /\ axes[a].position < 0

(***************************************************************************)
(* C9: update_keydown of a key bound to Axis(a, sign) sets the direction   *)
(* of a to +1 for a true sign and to -1 for a false one, and changes       *)
(* nothing else: not the position or the tween parameters of a, not the    *)
(* set of known axes, no other axis, no button, not the binding table.     *)
(***************************************************************************)
C9_KeyDownSetsDirectionOnly ==
    [][\A k \in DOMAIN bindings :
          (bindings[k].kind = "Axis" /\ update_keydown(k)) =>
              LET a == bindings[k].axis
              IN  /\ axes'[a].direction = IF bindings[k].positive THEN 1 ELSE -1
                  /\ axes'[a].position = axes[a].position
                  /\ axes'[a].acceleration = axes[a].acceleration
                  /\ axes'[a].gravity = axes[a].gravity
                  /\ DOMAIN axes' = DOMAIN axes
                  /\ \A b \in DOMAIN axes \ {a} : axes'[b] = axes[b]
                  /\ buttons' = buttons
                  /\ bindings' = bindings]_vars

\* A key-down has overridden the opposite direction of an axis away from
\* rest, next to another axis that is moving: the negative key is held, the
\* position is above zero.
C9_Witness ==
    \E a, b \in DOMAIN axes :
        /\ a # b
        /\ \E k \in KeysOfAxisSigned(a, FALSE) : k \in held
        /\ axes[a].direction = -1 /\ axes[a].position > 0
        /\ axes[b].position # 0

(***************************************************************************)
(* C10: right after update_keydown of a key bound to button b,             *)
(* get_button(b) is true, and right after update_keyup of such a key it is *)
(* false, whatever the state of b and of the other keys bound to b.        *)
(***************************************************************************)
C10_ButtonLastEventWins ==
    [][\A k \in DOMAIN bindings :
          bindings[k].kind = "Button" =>
              /\ update_keydown(k) => get_button(bindings[k].button)'
              /\ update_keyup(k) => ~get_button(bindings[k].button)']_vars

\* Two keys bound to one button, one of them held, and the button pressed.
C10_Witness ==
    \E b \in DOMAIN buttons : \E k1, k2 \in KeysOfButton(b) :
        /\ k1 # k2 /\ k1 \in held /\ k2 \notin held
        /\ get_button(b)

(***************************************************************************)
(* C11: update_keydown and update_keyup of a key that has no binding, or   *)
(* of None, leave the binding table, the set of known axes, the position   *)
(* and direction of every axis and every button state unchanged.           *)
(***************************************************************************)
C11_UnboundKeyNoOp ==
    [][\A k \in (Keys \cup {None}) \ DOMAIN bindings :
          (update_keydown(k) \/ update_keyup(k)) =>
              /\ bindings' = bindings
              /\ axes' = axes
              /\ buttons' = buttons]_vars

\* A key without a binding has had its key-down while an axis is driven and
\* away from rest and a button is pressed.
C11_Witness ==
    /\ held \ DOMAIN bindings # {}
    /\ \E a \in DOMAIN axes : axes[a].direction # 0 /\ axes[a].position # 0
    /\ \E b \in DOMAIN buttons : buttons[b]

\* The entries of map other than those of the keys in except are the same
\* after the step as before.
SameExcept(map, mapAfter, except) ==
    /\ DOMAIN mapAfter \ except = DOMAIN map \ except
    /\ \A x \in DOMAIN map \ except : mapAfter[x] = map[x]

(***************************************************************************)
(* C12: the binding table holds one effect per key and the last bind wins. *)
(* A bind of key k leaves k bound to the effect of that call and every     *)
(* other key as it was; only a bind of k changes the effect of k; and a    *)
(* key event of a bound key k writes only the axis or the button of the    *)
(* effect k is bound to now: no other axis, no other button.               *)
(***************************************************************************)
C12_LastBindWins ==
    [][/\ \A k \in Keys, a \in Axes, p \in BOOLEAN :
              bind_key_to_axis(k, a, p) =>
                  /\ k \in DOMAIN bindings' /\ bindings'[k] = AxisEffect(a, p)
                  /\ SameExcept(bindings, bindings', {k})
       /\ \A k \in Keys, b \in Buttons :
              bind_key_to_button(k, b) =>
                  /\ k \in DOMAIN bindings' /\ bindings'[k] = ButtonEffect(b)
                  /\ SameExcept(bindings, bindings', {k})
       /\ \A k \in DOMAIN bindings' :
              (k \notin DOMAIN bindings \/ bindings'[k] # bindings[k]) =>
                  \/ \E a \in Axes, p \in BOOLEAN : bind_key_to_axis(k, a, p)
                  \/ \E b \in Buttons : bind_key_to_button(k, b)
       /\ \A k \in DOMAIN bindings :
              (update_keydown(k) \/ update_keyup(k)) =>
                  IF bindings[k].kind = "Axis"
                  THEN /\ SameExcept(axes, axes', {bindings[k].axis})
                       /\ buttons' = buttons
                  ELSE /\ SameExcept(buttons, buttons', {bindings[k].button})
                       /\ axes' = axes]_vars

\* A key that drove an axis was bound anew to a button and pressed: the
\* button is pressed, and the axis, which no key is bound to any more, still
\* has the direction and the position the key gave it before.
C12_Witness ==
    \E a \in DOMAIN axes, b \in DOMAIN buttons :
        /\ KeysOfAxis(a) = {}
        /\ axes[a].direction # 0 /\ axes[a].position # 0
        /\ \E k \in KeysOfButton(b) : k \in held
        /\ buttons[b]

\* Axis a is at rest: position 0 and direction 0.
AtRest(a) == axes[a].position = 0 /\ axes[a].direction = 0

(***************************************************************************)
(* C13: reset_input_axes leaves every known axis with position 0 and       *)
(* direction 0, whatever its state and whatever keys are held; and an axis *)
(* with position 0 and direction 0 keeps both through every step, updates  *)
(* included, other than update_keydown of a key bound to it.               *)
(***************************************************************************)
C13_ResetBringsRest ==
    [][/\ reset_input_axes =>
              /\ DOMAIN axes' = DOMAIN axes
              /\ \A a \in DOMAIN axes : AtRest(a)'
       /\ \A a \in DOMAIN axes :
              (AtRest(a) /\ ~AtRest(a)') => \E k \in KeysOfAxis(a) : update_keydown(k)]_vars

\* Every known axis is at rest although the key of one of them is held, next
\* to a button that is still pressed.
C13_Witness ==
    /\ \E a \in DOMAIN axes : \E k \in KeysOfAxis(a) : k \in held
    /\ \A a \in DOMAIN axes : AtRest(a)
    /\ DOMAIN axes = Axes
    /\ \E b \in DOMAIN buttons : buttons[b]

(***************************************************************************)
(* C14: get_axis and get_axis_raw of an axis that is not in the registry   *)
(* add it with the default state (position 0, direction 0, acceleration 4, *)
(* gravity 3), return 0 and leave the other axes as they were; a call of   *)
(* get_button, get_button_down or get_button_up adds no button, and        *)
(* get_button of a button that is not in the registry is false.            *)
(***************************************************************************)
C14_UnknownAxisMaterializesButtonDoesNot ==
    /\ [][/\ \A a \in Axes \ DOMAIN axes :
                (get_axis(a) \/ get_axis_raw(a)) =>
                    /\ DOMAIN axes' = DOMAIN axes \cup {a}
                    /\ axes'[a] = [position |-> 0, direction |-> 0,
                                   acceleration |-> 4, gravity |-> 3]
                    /\ AxisValue(a)' = 0
                    /\ AxisRawValue(a)' = 0
                    /\ SameExcept(axes, axes', {a})
          /\ \A b \in Buttons : read_button(b) => buttons' = buttons]_vars
    /\ [](\A b \in Buttons \ DOMAIN buttons : ~get_button(b))

\* Before any bind, an axis has been read and is in the registry; the button
\* registry is still empty.
C14_Witness ==
    /\ bindings = << >>
    /\ DOMAIN axes # {}
    /\ buttons = << >>

(***************************************************************************)
(* C15: for every button identifier, in the registry or not,               *)
(* get_button_up is the negation of get_button and get_button_down equals  *)
(* get_button; so get_button_up of a button without an entry is true.      *)
(***************************************************************************)
C15_ButtonUpIsNegation ==
    \A b \in Buttons :
        /\ get_button_up(b) = ~get_button(b)
        /\ get_button_down(b) = get_button(b)
        /\ b \notin DOMAIN buttons => (get_button_up(b) /\ ~get_button_down(b))

\* A button whose key is held: down and not up.
C15_Witness ==
    \E b \in DOMAIN buttons :
        /\ \E k \in KeysOfButton(b) : k \in held
        /\ get_button(b) /\ get_button_down(b) /\ ~get_button_up(b)

(***************************************************************************)
(* C16: bind_key_to_axis of an axis that is in the registry already leaves *)
(* the position and the direction of that axis unchanged; the entry is     *)
(* made with the defaults only when the axis is absent.                    *)
(***************************************************************************)
C16_BindKeepsKnownAxis ==
    [][\A k \in Keys, a \in Axes, p \in BOOLEAN :
          bind_key_to_axis(k, a, p) =>
              IF a \in DOMAIN axes
              THEN /\ axes'[a].position = axes[a].position
                   /\ axes'[a].direction = axes[a].direction
              ELSE axes'[a] = AxisStatusDefault]_vars

(***************************************************************************)
(* C17: bind_key_to_button of a button that is in the registry and pressed *)
(* leaves it pressed; the entry is made with false only when the button is *)
(* absent.                                                                 *)
(***************************************************************************)
C17_BindKeepsPressedButton ==
    [][\A k \in Keys, b \in Buttons :
          bind_key_to_button(k, b) =>
              IF b \in DOMAIN buttons
              THEN buttons'[b] = buttons[b]
              ELSE buttons'[b] = FALSE]_vars

(***************************************************************************)
(* C18: in every reachable state the direction of every axis is -1, 0 or   *)
(* +1, its acceleration is 4 and its gravity is 3.                         *)
(***************************************************************************)
C18_DirectionAndTweenParameters ==
    \A a \in DOMAIN axes :
        /\ axes[a].direction \in {-1, 0, 1}
        /\ axes[a].acceleration = 4
        /\ axes[a].gravity = 3

\* One axis driven up and the other driven down, both moved by update.
C18_Witness ==
    \E a, b \in DOMAIN axes :
        /\ axes[a].direction = 1 /\ axes[a].position > 0
        /\ axes[b].direction = -1 /\ axes[b].position < 0

(***************************************************************************)
(* C19: update(dt) with dt >= 0 changes nothing but positions: the set of  *)
(* known axes, the direction, acceleration and gravity of every axis,      *)
(* every button and the binding table are after the call as before.        *)
(***************************************************************************)
C19_UpdateWritesPositionsOnly ==
    [][\A dt \in Dts :
          update(dt) =>
              /\ DOMAIN axes' = DOMAIN axes
              /\ \A a \in DOMAIN axes :
                     axes'[a] = [axes[a] EXCEPT !.position = axes'[a].position]
              /\ buttons' = buttons
              /\ bindings' = bindings]_vars

\* An update has taken a driven axis to its boundary while a button is
\* pressed.
C19_Witness ==
    /\ \E a \in DOMAIN axes : axes[a].direction # 0 /\ axes[a].position = Boundary(axes[a].direction)
    /\ \E b \in DOMAIN buttons : buttons[b]

(***************************************************************************)
(* C20: for all dt1, dt2 >= 0, update(dt1) followed by update(dt2) leaves  *)
(* every axis at the position a single update(dt1 + dt2) leaves it at.     *)
(***************************************************************************)
C20_TimeStepAdditive ==
    \A a \in DOMAIN axes, dt1 \in Dts, dt2 \in Dts :
        UpdateAxis(UpdateAxis(axes[a], dt1), dt2).position
            = UpdateAxis(axes[a], dt1 + dt2).position
====
